---- MODULE Spec2Model ----
(***************************************************************************)
(* Spectral Divide-and-Conquer Schur decomposition                         *)
(* (include/elemental/lapack-like/Schur/SDC.hpp).                          *)
(*                                                                         *)
(* Matrices are functions [0..h-1 -> [0..w-1 -> Int]] (0-based, as in the  *)
(* source).  Arithmetic is exact integer arithmetic; the unitary matrices  *)
(* the numerical kernels produce (Haar sample, QR factor, dense Schur      *)
(* vectors) are drawn from the signed permutation matrices, a finite       *)
(* subgroup of the unitary group on which Q^H A Q is computed exactly.  A  *)
(* signed permutation q (q[j] = +-(i + 1)) stands for the matrix Q whose   *)
(* column j is +-e_i: q is its implicit (packed) form, PermMatrix(q, n)    *)
(* its explicit form.                                                      *)
(***************************************************************************)
EXTENDS Integers, Sequences, FiniteSets, TLC

VARIABLES
    A,      \* backing storage of the matrix handed to the top-level call
    stack,  \* the call stack: one frame per live SDC / RandomizedSignDivide call
    args,   \* the arguments of the top-level call (cutoff, variant, grid, ...)
    out,    \* what the top-level call returned (result record) or "none"
    log     \* history of the calls made: base cases and splits, in call order

vars == <<A, stack, args, out, log>>

(***************************************************************************)
(* Bounds of the model.                                                    *)
(***************************************************************************)
MaxN == 3          \* largest matrix handed to SDC / RandomizedSignDivide
MaxPartN == 4      \* largest matrix handed to ComputePartition directly
MaxCutoff == 2     \* largest cutoff argument
MaxItsArg == 2     \* largest explicit maxIts argument of RandomizedSignDivide
MaxRelTol == 1     \* largest explicit relTol argument, in units of 1 / RelTolDen
MaxGrid == 2       \* largest process-grid height and width

Entries == {-1, 0, 2}      \* entry values of the inputs of ComputePartition
Garbage == {-1, 0, 1}      \* values an uninitialized or out-of-bounds read may yield

(***************************************************************************)
(* Dense kernels on small integer matrices.                                *)
(***************************************************************************)
Abs(x) == IF x < 0 THEN -x ELSE x

\* the sum of f(lo), .., f(hi) for a function f
RECURSIVE SumRange(_, _, _)
SumRange(f, lo, hi) == IF lo > hi THEN 0 ELSE f[lo] + SumRange(f, lo + 1, hi)

RECURSIVE MaxRange(_, _, _)
MaxRange(f, lo, hi) ==
    IF lo > hi THEN 0
    ELSE LET r == MaxRange(f, lo + 1, hi) IN IF f[lo] > r THEN f[lo] ELSE r

Zeros(h, w) == [i \in 0..(h - 1) |-> [j \in 0..(w - 1) |-> 0]]

NoMatrix == Zeros(0, 0)

Transpose(M, h, w) == [i \in 0..(w - 1) |-> [j \in 0..(h - 1) |-> M[j][i]]]

\* X[i][0] Y[0][j] + .. + X[i][k] Y[k][j]
RECURSIVE Dot(_, _, _, _, _)
Dot(X, Y, i, j, k) == IF k < 0 THEN 0 ELSE X[i][k] * Y[k][j] + Dot(X, Y, i, j, k - 1)

\* Gemm( NORMAL, NORMAL, 1, X, Y, C ): C := X Y, X is h x m and Y is m x w
MatMul(X, Y, h, m, w) ==
    [i \in 0..(h - 1) |-> [j \in 0..(w - 1) |-> Dot(X, Y, i, j, m - 1)]]

\* the h x w window of M whose top-left entry is M[r0][c0]
View(M, r0, c0, h, w) ==
    [i \in 0..(h - 1) |-> [j \in 0..(w - 1) |-> M[r0 + i][c0 + j]]]

\* M with the h x w window at (r0, c0) overwritten by B
Store(M, r0, c0, h, w, B) ==
    [i \in DOMAIN M |-> [j \in DOMAIN M[i] |->
        IF i >= r0 /\ i < r0 + h /\ j >= c0 /\ j < c0 + w
        THEN B[i - r0][j - c0] ELSE M[i][j]]]

OneNorm(M, n) ==
    MaxRange([j \in 0..(n - 1) |->
                 SumRange([i \in 0..(n - 1) |-> Abs(M[i][j])], 0, n - 1)], 0, n - 1)

InfinityNorm(M, n) ==
    MaxRange([i \in 0..(n - 1) |->
                 SumRange([j \in 0..(n - 1) |-> Abs(M[i][j])], 0, n - 1)], 0, n - 1)

(***************************************************************************)
(* ComputePartition( Matrix<F>& A )                                        *)
(***************************************************************************)
\* faulty variant: the column sums start on the diagonal, i = j
ColSumsWithDiagonal(M, n) ==
    [j \in 0..(n - 2) |->
        SumRange([i \in j..(n - 1) |-> Abs(M[i][j])], j, n - 1)]

ColSums(M, n) ==
    [j \in 0..(n - 2) |->
        SumRange([i \in (j + 1)..(n - 1) |-> Abs(M[i][j])], j + 1, n - 1)]

\* the loop runs i = 1 .. n-2 and leaves rowSums[n-2] at its initial zero
RowSums(M, n) ==
    [r \in 0..(n - 2) |->
        IF r + 1 < n - 1
        THEN SumRange([j \in 0..r |-> Abs(M[r + 1][j])], 0, r)
        ELSE 0]

\* norms[0] = colSums[0]; norms[j] = norms[j-1] + colSums[j] - rowSums[j-1]
RECURSIVE NormAt(_, _, _)
NormAt(colSums, rowSums, j) ==
    IF j = 0 THEN colSums[0]
    ELSE NormAt(colSums, rowSums, j - 1) + colSums[j] - rowSums[j - 1]

\* faulty variant: the scan records j + 2 instead of j + 1
ScanStepOffByOne(part, norm, j) ==
    IF norm < part.value THEN [value |-> norm, index |-> j + 2] ELSE part

\* faulty variant: the scan records the index of a smaller norm but keeps the
\* old value
ScanStepKeepsValue(part, norm, j) ==
    IF norm < part.value THEN [value |-> part.value, index |-> j + 1] ELSE part

\* the update of part in iteration j of the scan
ScanStep(part, norm, j) ==
    IF norm < part.value THEN [value |-> norm, index |-> j + 1] ELSE part

RECURSIVE ScanNorms(_, _, _, _)
ScanNorms(part, norms, j, n) ==
    IF j < n - 1 THEN ScanNorms(ScanStep(part, norms[j], j), norms, j + 1, n) ELSE part

\* faulty variant: part.index starts at the 0-based position of norms[0]
PartitionFromZero(colSums, rowSums, n) ==
    LET norms == [j \in 0..(n - 2) |-> NormAt(colSums, rowSums, j)]
    IN  ScanNorms([value |-> norms[0], index |-> 0], norms, 1, n)

\* the scan over the sums, shared by the sequential and the distributed routine
Partition(colSums, rowSums, n) ==
    LET norms == [j \in 0..(n - 2) |-> NormAt(colSums, rowSums, j)]
    IN  ScanNorms([value |-> norms[0], index |-> 1], norms, 1, n)

\* the part a call on an n x n matrix may return.  For n = 0 the function
\* leaves through "return;", without a value; for n = 1 it reads colSums[0] of
\* an empty vector: what the caller then sees is not determined by the source.
ComputePartition(M, n) ==
    IF n = 0 THEN {[value |-> v, index |-> i] : v, i \in Garbage}
    ELSE IF n = 1 THEN {[value |-> v, index |-> 1] : v \in Garbage}
    ELSE {Partition(ColSums(M, n), RowSums(M, n), n)}

(***************************************************************************)
(* ComputePartition( DistMatrix<F>& A ): every process sums its local      *)
(* entries, the sums are all-reduced, and every process runs the scan.     *)
(* grid = [r, c, colAlign, rowAlign]; process <<p, q>> owns the entries    *)
(* (i, j) with i = colShift + iLoc r and j = rowShift + jLoc c.            *)
(***************************************************************************)
ColShift(grid, p) == (p - grid.colAlign) % grid.r

RowShift(grid, q) == (q - grid.rowAlign) % grid.c

\* Length( n, shift, stride ): the local extent of a dimension of size n
Length(n, shift, stride) == IF n > shift THEN ((n - shift - 1) \div stride) + 1 ELSE 0

LocalHeight(grid, p, n) == Length(n, ColShift(grid, p), grid.r)

LocalWidth(grid, q, n) == Length(n, RowShift(grid, q), grid.c)

\* the global row of local row iLoc on grid row p, the global column of jLoc
GlobalRow(grid, p, iLoc) == ColShift(grid, p) + iLoc * grid.r

GlobalCol(grid, q, jLoc) == RowShift(grid, q) + jLoc * grid.c

\* what process (p, q) adds to colSums[j0] in its local loop
LocalColSum(M, grid, p, q, n, j0) ==
    LET mLocal == LocalHeight(grid, p, n)
        nLocal == LocalWidth(grid, q, n)
        inner(j) ==
            SumRange([iLoc \in 0..(mLocal - 1) |->
                         LET i == GlobalRow(grid, p, iLoc)
                         IN  IF i > j THEN Abs(M[i][j]) ELSE 0], 0, mLocal - 1)
    IN  SumRange([jLoc \in 0..(nLocal - 1) |->
                     LET j == GlobalCol(grid, q, jLoc)
                     IN  IF j < n - 1 /\ j = j0 THEN inner(j) ELSE 0], 0, nLocal - 1)

\* what process (p, q) adds to rowSums[i0 - 1] in its local loop
LocalRowSum(M, grid, p, q, n, i0) ==
    LET mLocal == LocalHeight(grid, p, n)
        nLocal == LocalWidth(grid, q, n)
        inner(j) ==
            SumRange([iLoc \in 0..(mLocal - 1) |->
                         LET i == GlobalRow(grid, p, iLoc)
                         IN  IF i > j /\ i = i0 THEN Abs(M[i][j]) ELSE 0], 0, mLocal - 1)
    IN  SumRange([jLoc \in 0..(nLocal - 1) |->
                     LET j == GlobalCol(grid, q, jLoc)
                     IN  IF j < n - 1 THEN inner(j) ELSE 0], 0, nLocal - 1)

\* faulty variant: the sum over one column of the grid only
AllReduceColumnOnly(f, grid) ==
    SumRange([p \in 0..(grid.r - 1) |-> f[p][0]], 0, grid.r - 1)

\* the sum over the whole grid of what each process holds
AllReduce(f, grid) ==
    SumRange([p \in 0..(grid.r - 1) |->
                 SumRange([q \in 0..(grid.c - 1) |-> f[p][q]], 0, grid.c - 1)],
             0, grid.r - 1)

\* mpi::AllReduce( &colSums[0], n-1, g.VCComm() )
DistColSums(M, grid, n) ==
    [j \in 0..(n - 2) |->
        AllReduce([p \in 0..(grid.r - 1) |-> [q \in 0..(grid.c - 1) |->
                      LocalColSum(M, grid, p, q, n, j)]], grid)]

\* mpi::AllReduce( &rowSums[0], n-1, g.VCComm() )
DistRowSums(M, grid, n) ==
    [r \in 0..(n - 2) |->
        AllReduce([p \in 0..(grid.r - 1) |-> [q \in 0..(grid.c - 1) |->
                      LocalRowSum(M, grid, p, q, n, r + 1)]], grid)]

\* the part a call on an n x n matrix may return: the sentinel for n = 0; for
\* n = 1 it reads colSums[0] of an empty vector
DistComputePartition(M, grid, n) ==
    IF n = 0 THEN {[value |-> -1, index |-> -1]}
    ELSE IF n = 1 THEN {[value |-> v, index |-> 1] : v \in Garbage}
    ELSE {Partition(DistColSums(M, grid, n), DistRowSums(M, grid, n), n)}

(***************************************************************************)
(* The unitary matrices of the model: signed permutation matrices.         *)
(***************************************************************************)
\* the cyclic shift by s, as the columns +(i + 1)
Shift(n, s) == [j \in 0..(n - 1) |-> ((j + s) % n) + 1]

\* the rotation by a quarter turn in the first two coordinates: columns +e_1, -e_0
Quarter(n) == [j \in 0..(n - 1) |-> IF j = 0 THEN 2 ELSE IF j = 1 THEN -1 ELSE j + 1]

\* the identity, the other cyclic shifts and, from n = 2 on, the quarter turn;
\* the 0 x 0 identity is the empty matrix
SignedPerms(n) ==
    {Shift(n, s) : s \in {0} \cup 1..(n - 1)} \cup {Quarter(n) : m \in 2..n}

\* what ImplicitHaar with elem::QR, and the dense Schur solver, may produce, by size
Unitaries == [n \in 0..MaxN |-> SignedPerms(n)]

\* row index and sign of column j of q
RowOf(q, j) == Abs(q[j]) - 1

SignOf(q, j) == IF q[j] < 0 THEN -1 ELSE 1

\* ExpandPackedReflectors: the explicit matrix of q
PermMatrix(q, n) ==
    [i \in 0..(n - 1) |-> [j \in 0..(n - 1) |-> IF i = RowOf(q, j) THEN SignOf(q, j) ELSE 0]]

\* qr::ApplyQ( LEFT, ADJOINT, G, t, M ): M := Q^H M
ApplyQLeftAdjoint(q, M, n) ==
    [i \in 0..(n - 1) |-> [j \in 0..(n - 1) |-> SignOf(q, i) * M[RowOf(q, i)][j]]]

\* qr::ApplyQ( RIGHT, NORMAL, G, t, M ): M := M Q
ApplyQRightNormal(q, M, n) ==
    [i \in 0..(n - 1) |-> [j \in 0..(n - 1) |-> SignOf(q, j) * M[i][RowOf(q, j)]]]

\* faulty variant: the second Gemm / ApplyQ is missing, A := Q^H A
TransformLeftOnly(q, M, n, returnQ) ==
    IF returnQ
    THEN MatMul(Transpose(PermMatrix(q, n), n, n), M, n, n, n)
    ELSE ApplyQLeftAdjoint(q, M, n)

\* A := Q^H A Q: with returnQ by two Gemm on the expanded G, else by two ApplyQ
Transform(q, M, n, returnQ) ==
    IF returnQ
    THEN LET G == PermMatrix(q, n)
             B == MatMul(Transpose(G, n, n), M, n, n, n)
         IN  MatMul(B, G, n, n, n)
    ELSE ApplyQRightNormal(q, ApplyQLeftAdjoint(q, M, n), n)

(***************************************************************************)
(* Values of type ValueInt<Real>.  part.value /= oneA is kept as the       *)
(* fraction value / den; set is FALSE while part is uninitialized.         *)
(***************************************************************************)
NoPart == [index |-> 0, value |-> 0, den |-> 1, set |-> FALSE]

Normalized(part, oneA) ==
    [index |-> part.index, value |-> part.value, den |-> oneA, set |-> TRUE]

RelTolDen == 4     \* a relTol argument r stands for the fraction r / RelTolDen

\* part.value <= relTol, after relTol == 0 was replaced by 50 n eps: a bound
\* below every positive quotient of the integer model.  x / 0 is NaN or an
\* infinity, and compares as IEEE arithmetic does.
LeqRelTol(part, relTol) ==
    IF part.den = 0 THEN part.value < 0
    ELSE IF relTol = 0 THEN part.value <= 0
    ELSE part.value * RelTolDen <= relTol * part.den

DefaultMaxIts == 10
DefaultRelTol == 0

(***************************************************************************)
(* Call stack and results.                                                 *)
(***************************************************************************)
Top == stack[Len(stack)]

Callers == SubSeq(stack, 1, Len(stack) - 1)

Running(fn, pc) == stack # <<>> /\ Top.fn = fn /\ Top.pc = pc

NoPerm == [i \in {} |-> 0]

NoShift == [trace |-> 0, n |-> 0, offset |-> 0]

NoG == [kind |-> "none", M |-> NoMatrix, q |-> NoPerm, shift |-> NoShift]

NoResult ==
    [done |-> FALSE, error |-> FALSE, Q |-> NoMatrix, part |-> NoPart, G |-> NoG,
     tries |-> 0]

\* SDC returned, with Qret in its Q argument
Result(Qret) == [NoResult EXCEPT !.done = TRUE, !.Q = Qret]

\* the process grid as seen from the view whose top-left entry is (lo, lo)
GridAt(lo) ==
    [r |-> args.grid.r, c |-> args.grid.c,
     colAlign |-> (args.grid.colAlign + lo) % args.grid.r,
     rowAlign |-> (args.grid.rowAlign + lo) % args.grid.c]

PartitionOf(M, n, lo) ==
    IF args.dist THEN DistComputePartition(M, GridAt(lo), n) ELSE ComputePartition(M, n)

(***************************************************************************)
(* SDC frames: SDC( A, cutoff ) and SDC( A, Q, formATR, cutoff ),           *)
(* sequential and distributed.                                             *)
(***************************************************************************)
SDCFrame(lo, n) ==
    [fn |-> "SDC", pc |-> "entry", lo |-> lo, n |-> n, part |-> NoPart,
     Q |-> NoMatrix, Z |-> NoMatrix, ZT |-> NoMatrix, ZB |-> NoMatrix, G |-> NoMatrix,
     \* history: Q and ATR as the split left them, what the two children returned
     Qsplit |-> NoMatrix, ATRsplit |-> NoMatrix, ZTL |-> NoMatrix, ZBR |-> NoMatrix]

\* the caller's frame when a recursive call that computed Qret returns
Resume(f, Qret) ==
    IF f.pc = "top"
    THEN IF args.dist THEN [f EXCEPT !.pc = "afterTop", !.ZT = Qret, !.ZTL = Qret]
                      ELSE [f EXCEPT !.pc = "afterTop", !.Z = Qret, !.ZTL = Qret]
    ELSE IF args.dist THEN [f EXCEPT !.pc = "afterBottom", !.ZB = Qret, !.ZBR = Qret]
                      ELSE [f EXCEPT !.pc = "afterBottom", !.Z = Qret, !.ZBR = Qret]

\* the stack once the running SDC call has returned, with Qret in its Q argument
ReturnTo(Qret) ==
    IF Len(stack) = 1 THEN <<>>
    ELSE SubSeq(stack, 1, Len(stack) - 2) \o <<Resume(stack[Len(stack) - 1], Qret)>>

(***************************************************************************)
(* RandomizedSignDivide( A, G, returnQ, maxIts, relTol )                   *)
(***************************************************************************)
\* what G holds after elem::QR: the packed reflectors of Q, or, with returnQ
\* (ExpandPackedReflectors), Q itself
FactorOf(q, n, returnQ) ==
    [kind |-> IF returnQ THEN "Q" ELSE "packed",
     M |-> IF returnQ THEN PermMatrix(q, n) ELSE NoMatrix, q |-> q, shift |-> NoShift]

\* what G holds after G = S: the projector ( sgn(G) + I ) / 2
Projector == [NoG EXCEPT !.kind = "projector"]

\* the frame of a call, up to the first G = S of its loop
RSDFrame(lo, n, M, gen, returnQ, maxIts, relTol) ==
    [fn |-> "RSD", pc |-> "loop", lo |-> lo, n |-> n,
     returnQ |-> returnQ, maxIts |-> maxIts, relTol |-> relTol,
     oneA |-> OneNorm(M, n),
     it |-> 0, V |-> NoMatrix, G |-> IF 0 < maxIts THEN Projector ELSE gen,
     part |-> NoPart,
     \* history: the matrix and the generator passed in, the attempts made
     A0 |-> M, gen |-> gen, tries |-> 0]

\* faulty variant: the exit test forgets the last iteration
BreaksOnToleranceOnly(part, relTol, it, maxIts) == LeqRelTol(part, relTol)

\* faulty variant: the exit test counts one iteration too few
BreaksEarly(part, relTol, it, maxIts) == LeqRelTol(part, relTol) \/ it >= maxIts - 2

\* faulty variant: the exit test forgets the tolerance
BreaksOnExhaustionOnly(part, relTol, it, maxIts) == it = maxIts - 1

\* the loop's exit test
Breaks(part, relTol, it, maxIts) == LeqRelTol(part, relTol) \/ it = maxIts - 1

\* faulty variant: a retry without A = V
AfterAttemptKeep(brk, V, transformed) == transformed

\* A after the exit test: kept on break, rolled back to V otherwise
AfterAttempt(brk, V, transformed) == IF brk THEN transformed ELSE V

\* faulty variant: the TODO resolved by throwing
DividedOrThrow(part, relTol) == [error |-> ~LeqRelTol(part, relTol), part |-> part]

\* SpectralDivide after RandomizedSignDivide returned part: it hands part on,
\* whatever part.value is ("TODO: Retry or throw exception")
Divided(part, relTol) == [error |-> FALSE, part |-> part]

SplitEvent(f, part) ==
    [ev |-> "split", lo |-> f.lo, n |-> f.n, index |-> part.index,
     value |-> part.value, den |-> part.den, met |-> LeqRelTol(part, f.relTol)]

\* the stack, the result and the log once the running RandomizedSignDivide call
\* has returned part and left G: to its caller SpectralDivide, which returns
\* part to SDC, or out of the top-level call
RSDReturn(f, part, G) ==
    IF Len(stack) = 1
    THEN /\ stack' = <<>>
         /\ out' = [NoResult EXCEPT !.done = TRUE, !.part = part, !.G = G,
                                    !.tries = f.tries]
         /\ log' = log
    ELSE LET caller == stack[Len(stack) - 1]
             res    == Divided(part, f.relTol)
         IN  /\ stack' = SubSeq(stack, 1, Len(stack) - 2) \o
                   <<[caller EXCEPT !.pc = IF res.error THEN "error" ELSE "split",
                                    !.part = res.part,
                                    !.Q = IF args.vectors THEN G.M ELSE NoMatrix]>>
             /\ out' = [out EXCEPT !.error = res.error]
             /\ log' = Append(log, SplitEvent(f, part))

\* one iteration of the loop, from after its G = S up to the return that follows
\* the break or, on a retry, up to the next iteration's G = S
RSDAttempt ==
    /\ Running("RSD", "loop")
    /\ Top.it < Top.maxIts
    /\ \E q \in Unitaries[Top.n], V \in {View(A, Top.lo, Top.lo, Top.n, Top.n)} :
        \E T \in {Transform(q, V, Top.n, Top.returnQ)} :
        \E raw \in PartitionOf(T, Top.n, Top.lo) :
        \E part \in {Normalized(raw, Top.oneA)} :
        \E brk \in {Breaks(part, Top.relTol, Top.it, Top.maxIts)} :
        LET f == Top
            g == [f EXCEPT !.V = V, !.part = part, !.tries = @ + 1]
        IN  /\ A' = Store(A, f.lo, f.lo, f.n, f.n, AfterAttempt(brk, V, T))
            /\ IF brk
               THEN RSDReturn(g, part, FactorOf(q, f.n, f.returnQ))
               ELSE /\ stack' = Callers \o <<[g EXCEPT !.it = @ + 1]>>
                    /\ UNCHANGED <<out, log>>
    /\ UNCHANGED args

\* the values a returned part may have: an uninitialized part reads as garbage
Returned(part) ==
    IF part.set THEN {part}
    ELSE {[index |-> i, value |-> v, den |-> 1, set |-> FALSE] : i, v \in Garbage}

\* the loop condition fails without a break (maxIts <= 0), then the return
RSDLoopEnd ==
    /\ Running("RSD", "loop")
    /\ ~(Top.it < Top.maxIts)
    /\ \E part \in Returned(Top.part) : RSDReturn(Top, part, Top.G)
    /\ UNCHANGED <<A, args>>

(***************************************************************************)
(* SDC: the base case.                                                     *)
(***************************************************************************)
\* faulty variant: the base case misses n = cutoff
IsBaseStrict(n, cutoff) == n < cutoff

\* the test of the base case
IsBase(n, cutoff) == n <= cutoff

\* schur::QR( A, w ) / schur::QR( A, Q, w, formATR ): the dense Schur solver, which
\* replaces A by Z^H A Z for the Schur vectors Z it computes
SchurQR(M, z, n) == ApplyQRightNormal(z, ApplyQLeftAdjoint(z, M, n), n)

SDCBase ==
    /\ Running("SDC", "entry")
    /\ IsBase(Top.n, args.cutoff)
    /\ \E z \in Unitaries[Top.n] :
        LET f    == Top
            Qret == IF args.vectors THEN PermMatrix(z, f.n) ELSE NoMatrix
        IN  /\ A' = Store(A, f.lo, f.lo, f.n, f.n,
                          SchurQR(View(A, f.lo, f.lo, f.n, f.n), z, f.n))
            /\ stack' = ReturnTo(Qret)
            /\ out' = IF Len(stack) = 1 THEN Result(Qret) ELSE out
            /\ log' = Append(log, [ev |-> "base", lo |-> f.lo, n |-> f.n])
    /\ UNCHANGED args

(***************************************************************************)
(* SpectralDivide( A ) / SpectralDivide( A, Q ), up to its call of         *)
(* RandomizedSignDivide.                                                   *)
(***************************************************************************)
\* faulty variant: the diagonal is read after it was set to zero
GetDiagonalZeroed(M, n) == [i \in 0..(n - 1) |-> 0]

GetDiagonal(M, n) == [i \in 0..(n - 1) |-> M[i][i]]

SetDiagonal(M, d, n) ==
    [i \in 0..(n - 1) |-> [j \in 0..(n - 1) |-> IF i = j THEN d[i] ELSE M[i][j]]]

Trace(M, n) == SumRange([i \in 0..(n - 1) |-> M[i][i]], 0, n - 1)

\* SampleBall( -gershCenter, 0.001 offDiagInf ): the centre is the fraction
\* -trace / n, the offset from it is zero when the radius is zero
ShiftOffsets == {0, 1}

Shifts(M, n, offDiagInf) ==
    {[trace |-> Trace(M, n), n |-> n, offset |-> o] :
        o \in IF offDiagInf = 0 THEN {0} ELSE ShiftOffsets}

\* G( A ); UpdateDiagonal( G, shift ): a copy of A and the shift added to its diagonal
Generator(M, shift) == [kind |-> "generator", M |-> M, q |-> NoPerm, shift |-> shift]

SpectralDivide ==
    /\ Running("SDC", "entry")
    /\ ~IsBase(Top.n, args.cutoff)
    /\ LET f          == Top
           M          == View(A, f.lo, f.lo, f.n, f.n)
           d          == GetDiagonal(M, f.n)
           zeroed     == SetDiagonal(M, [i \in 0..(f.n - 1) |-> 0], f.n)
           offDiagInf == InfinityNorm(zeroed, f.n)
           restored   == SetDiagonal(zeroed, d, f.n)
       IN  \E shift \in Shifts(restored, f.n, offDiagInf), R \in {restored} :
             /\ A' = Store(A, f.lo, f.lo, f.n, f.n, R)
             /\ stack' = Callers \o
                  <<[f EXCEPT !.pc = "divide"],
                    RSDFrame(f.lo, f.n, R, Generator(R, shift),
                             args.vectors, DefaultMaxIts, DefaultRelTol)>>
    /\ UNCHANGED <<args, out, log>>

(***************************************************************************)
(* SDC: the split and the two recursive calls.                             *)
(***************************************************************************)
\* PartitionDownDiagonal( A, ATL, ATR, ABL, ABR, k ): the four views of the n x n
\* view at (lo, lo), as [r0, c0, h, w] windows of the backing storage
\* faulty variant: ATL is one row and one column short
ATLOfShort(lo, n, k) == [r0 |-> lo, c0 |-> lo, h |-> k - 1, w |-> k - 1]

ATLOf(lo, n, k) == [r0 |-> lo, c0 |-> lo, h |-> k, w |-> k]

ATROf(lo, n, k) == [r0 |-> lo, c0 |-> lo + k, h |-> k, w |-> n - k]

ABLOf(lo, n, k) == [r0 |-> lo + k, c0 |-> lo, h |-> n - k, w |-> k]

\* faulty variant: ABR starts one row and column early, on the last of ATL
ABROfOverlapping(lo, n, k) ==
    [r0 |-> lo + k - 1, c0 |-> lo + k - 1, h |-> n - k, w |-> n - k]

ABROf(lo, n, k) == [r0 |-> lo + k, c0 |-> lo + k, h |-> n - k, w |-> n - k]

Window(M, v) == View(M, v.r0, v.c0, v.h, v.w)

\* PartitionRight( Q, QL, QR, k ): the column blocks of the n x n matrix Q
QLOf(n, k) == [r0 |-> 0, c0 |-> 0, h |-> n, w |-> k]

QROf(n, k) == [r0 |-> 0, c0 |-> k, h |-> n, w |-> n - k]

\* the partition, then SDC( ATL, cutoff ) / SDC( ATL, Z, formATR, cutoff )
SDCRecurseTL ==
    /\ Running("SDC", "split")
    /\ LET f == Top
           k == f.part.index
       IN  /\ k \in 0..f.n
           /\ stack' = Callers \o
                <<[f EXCEPT !.pc = "top", !.Qsplit = f.Q,
                            !.ATRsplit = Window(A, ATROf(f.lo, f.n, k))],
                  SDCFrame(ATLOf(f.lo, f.n, k).r0, ATLOf(f.lo, f.n, k).h)>>
    /\ UNCHANGED <<A, args, out, log>>

\* faulty variant: QL := G Z is missing
UpdateLeftNoGemm(f, k, ATR) ==
    LET G1 == Window(f.Q, QLOf(f.n, k))
        G2 == IF args.formATR
              THEN MatMul(Transpose(f.Z, k, k), ATR, k, k, f.n - k)
              ELSE G1
    IN  [f EXCEPT !.G = G2]

\* sequential, after SDC( ATL, Z ): G = QL; QL := G Z; if formATR, G := Z^H ATR
UpdateLeft(f, k, ATR) ==
    LET G1 == Window(f.Q, QLOf(f.n, k))
        QL == MatMul(G1, f.Z, f.n, k, k)
        G2 == IF args.formATR
              THEN MatMul(Transpose(f.Z, k, k), ATR, k, k, f.n - k)
              ELSE G1
    IN  [f EXCEPT !.Q = Store(f.Q, 0, 0, f.n, k, QL), !.G = G2]

\* what runs between the two recursive calls, then SDC( ABR, .. )
SDCRecurseBR ==
    /\ Running("SDC", "afterTop")
    /\ LET f == Top
           k == f.part.index
           g == IF args.vectors /\ ~args.dist
                THEN UpdateLeft(f, k, Window(A, ATROf(f.lo, f.n, k)))
                ELSE f
       IN  stack' = Callers \o
             <<[g EXCEPT !.pc = "bottom"],
               SDCFrame(ABROf(f.lo, f.n, k).r0, ABROf(f.lo, f.n, k).h)>>
    /\ UNCHANGED <<A, args, out, log>>

\* faulty variant: the last Gemm writes G Z into the columns of QL
UpdateRightIntoLeft(f, k, ATR) ==
    LET ATR1 == IF args.formATR THEN MatMul(f.G, f.Z, k, f.n - k, f.n - k) ELSE ATR
        G1   == Window(f.Q, QROf(f.n, k))
        QR   == MatMul(G1, f.Z, f.n, f.n - k, f.n - k)
    IN  [Q |-> Store(f.Q, 0, 0, f.n, f.n - k, QR), ATR |-> ATR1]

\* sequential, after SDC( ABR, Z ): if formATR, ATR := G Z; G = QR; QR := G Z.
\* The result is [Q, ATR].
UpdateRight(f, k, ATR) ==
    LET ATR1 == IF args.formATR THEN MatMul(f.G, f.Z, k, f.n - k, f.n - k) ELSE ATR
        G1   == Window(f.Q, QROf(f.n, k))
        QR   == MatMul(G1, f.Z, f.n, f.n - k, f.n - k)
    IN  [Q |-> Store(f.Q, 0, k, f.n, f.n - k, QR), ATR |-> ATR1]

\* faulty variant: Gemm( NORMAL, .. ) in place of Gemm( ADJOINT, .. ) on ZT
UpdateBothNoAdjoint(f, k, ATR) ==
    LET G1   == Window(f.Q, QLOf(f.n, k))
        QL   == MatMul(G1, f.ZT, f.n, k, k)
        G2   == Window(f.Q, QROf(f.n, k))
        QR   == MatMul(G2, f.ZB, f.n, f.n - k, f.n - k)
        G3   == MatMul(f.ZT, ATR, k, k, f.n - k)
        ATR1 == IF args.formATR THEN MatMul(G3, f.ZB, k, f.n - k, f.n - k) ELSE ATR
    IN  [Q |-> Store(Store(f.Q, 0, 0, f.n, k, QL), 0, k, f.n, f.n - k, QR),
         ATR |-> ATR1]

\* distributed, after both calls: G = QL; QL := G ZT; G = QR; QR := G ZB;
\* if formATR, G := ZT^H ATR; ATR := G ZB.  The result is [Q, ATR].
UpdateBoth(f, k, ATR) ==
    LET G1   == Window(f.Q, QLOf(f.n, k))
        QL   == MatMul(G1, f.ZT, f.n, k, k)
        G2   == Window(f.Q, QROf(f.n, k))
        QR   == MatMul(G2, f.ZB, f.n, f.n - k, f.n - k)
        G3   == MatMul(Transpose(f.ZT, k, k), ATR, k, k, f.n - k)
        ATR1 == IF args.formATR THEN MatMul(G3, f.ZB, k, f.n - k, f.n - k) ELSE ATR
    IN  [Q |-> Store(Store(f.Q, 0, 0, f.n, k, QL), 0, k, f.n, f.n - k, QR),
         ATR |-> ATR1]

\* faulty variant: ATR is formed whatever formATR says
StitchedFormsATR(f, k, ATR) ==
    IF ~args.vectors THEN [Q |-> NoMatrix, ATR |-> ATR]
    ELSE LET u == IF args.dist THEN UpdateBoth(f, k, ATR) ELSE UpdateRight(f, k, ATR)
             G == MatMul(Transpose(f.ZTL, k, k), ATR, k, k, f.n - k)
         IN  [Q |-> u.Q, ATR |-> MatMul(G, f.ZBR, k, f.n - k, f.n - k)]

\* Q and ATR when SDC returns from a split
Stitched(f, k, ATR) ==
    IF ~args.vectors THEN [Q |-> NoMatrix, ATR |-> ATR]
    ELSE IF args.dist THEN UpdateBoth(f, k, ATR)
    ELSE UpdateRight(f, k, ATR)

\* what runs after the second recursive call, then the return
SDCFinish ==
    /\ Running("SDC", "afterBottom")
    /\ \E u \in {Stitched(Top, Top.part.index,
                            Window(A, ATROf(Top.lo, Top.n, Top.part.index)))} :
       LET f   == Top
           k   == f.part.index
           atr == ATROf(f.lo, f.n, k)
       IN  /\ A' = Store(A, atr.r0, atr.c0, atr.h, atr.w, u.ATR)
           /\ stack' = ReturnTo(u.Q)
           /\ out' = IF Len(stack) = 1 THEN Result(u.Q) ELSE out
    /\ UNCHANGED <<args, log>>

(***************************************************************************)
(* Inputs and specifications.                                              *)
(***************************************************************************)
Positions(n) == (0..(n - 1)) \X (0..(n - 1))

\* the n x n matrix whose nonzero entries are at the positions S: 1 below the
\* diagonal, 4 on and above it
Sparse(n, S) ==
    [i \in 0..(n - 1) |-> [j \in 0..(n - 1) |->
        IF <<i, j>> \in S THEN (IF i > j THEN 1 ELSE 4) ELSE 0]]

\* the inputs of SDC: at most one nonzero entry, or two below the diagonal
Inputs(n) ==
    {Sparse(n, S) : S \in {T \in SUBSET Positions(n) :
        \/ Cardinality(T) <= 1
        \/ Cardinality(T) = 2 /\ \A p \in T : p[1] > p[2]}}

\* the inputs of RandomizedSignDivide: at most two nonzero entries
RSDInputs(n) ==
    {Sparse(n, S) : S \in {T \in SUBSET Positions(n) : Cardinality(T) <= 2}}

SequentialGrid == [r |-> 1, c |-> 1, colAlign |-> 0, rowAlign |-> 0]

FullGrid == [r |-> MaxGrid, c |-> MaxGrid, colAlign |-> 0, rowAlign |-> 0]

\* the process grids and alignments a DistMatrix may have
Grids ==
    {g \in [r : 1..MaxGrid, c : 1..MaxGrid,
            colAlign : 0..(MaxGrid - 1), rowAlign : 0..(MaxGrid - 1)] :
        g.colAlign < g.r /\ g.rowAlign < g.c}

\* the arguments of a top-level call; A0 is the matrix passed in
ArgsOf(M, n, cutoff, vectors, formATR, dist, maxIts, relTol) ==
    [A0 |-> M, n |-> n, cutoff |-> cutoff, vectors |-> vectors, formATR |-> formATR,
     dist |-> dist, grid |-> IF dist THEN FullGrid ELSE SequentialGrid,
     maxIts |-> maxIts, relTol |-> relTol]

\* a call of SDC on an n x n matrix, with cutoff >= 1
InitCall(vectors, dists, cutoffs) ==
    /\ \E n \in 0..MaxN, cutoff \in cutoffs, formATR \in {FALSE, vectors},
          dist \in dists :
         \E M \in Inputs(n) :
            /\ A = M
            /\ args = ArgsOf(M, n, cutoff, vectors, formATR, dist,
                             DefaultMaxIts, DefaultRelTol)
            /\ stack = <<SDCFrame(0, n)>>
    /\ out = NoResult
    /\ log = <<>>

\* a call within the precondition cutoff >= 1
InitSDC(vectors, dists) == InitCall(vectors, dists, 1..MaxCutoff)

\* SDC( Matrix<F>& A, cutoff )
Init == InitSDC(FALSE, {FALSE})

\* SDC( A, Q, formATR, cutoff ), on Matrix<F> and on DistMatrix<F>
InitQ == InitSDC(TRUE, BOOLEAN)

Next ==
    \/ SDCBase
    \/ SpectralDivide
    \/ RSDAttempt
    \/ SDCRecurseTL
    \/ SDCRecurseBR
    \/ SDCFinish

Spec == Init /\ [][Next]_vars

\* the call runs on: a sequential program takes its next step
FairSpec == Init /\ [][Next]_vars /\ WF_vars(Next)

SpecQ == InitQ /\ [][Next]_vars

\* SDC( A, cutoff ) on Matrix<F> and on DistMatrix<F>
InitPlain == InitSDC(FALSE, BOOLEAN)

SpecPlain == InitPlain /\ [][Next]_vars

\* all four SDC variants
SpecSDC == (Init \/ InitQ) /\ [][Next]_vars

\* SDC( Matrix<F>& A, cutoff ) with any cutoff an Int can hold, 0 included.  With
\* cutoff = 0 the recursion does not end (a 1 x 1 block is split into itself and
\* an empty block), so the depth of the call stack is capped.
MaxDepth == 5

InitAnyCutoff == InitCall(FALSE, {FALSE}, 0..MaxCutoff)

NextAnyCutoff == Len(stack) <= MaxDepth /\ Next

SpecAnyCutoff == InitAnyCutoff /\ [][NextAnyCutoff]_vars

(***************************************************************************)
(* A direct call RandomizedSignDivide( A, G, returnQ, maxIts, relTol ) on  *)
(* an n x n matrix, n >= 2, sequential or distributed.                     *)
(***************************************************************************)
InitRSD ==
    /\ \E n \in 2..MaxN, returnQ \in BOOLEAN, dist \in BOOLEAN,
          maxIts \in 0..MaxItsArg, relTol \in 0..MaxRelTol :
         \E M \in RSDInputs(n) :
            /\ A = M
            /\ args = ArgsOf(M, n, 1, returnQ, FALSE, dist, maxIts, relTol)
            /\ stack = <<RSDFrame(0, n, M, Generator(M, NoShift), returnQ,
                                  maxIts, relTol)>>
    /\ out = NoResult
    /\ log = <<>>

NextRSD ==
    \/ RSDAttempt
    \/ RSDLoopEnd

SpecRSD == InitRSD /\ [][NextRSD]_vars

(***************************************************************************)
(* SignDivide( A, G, returnQ ): one pivoted QR of the projector, no retry. *)
(* A direct call of either splitter with returnQ = true.                   *)
(***************************************************************************)
SignFrame(lo, n, M, gen, returnQ) ==
    [RSDFrame(lo, n, M, gen, returnQ, 1, DefaultRelTol)
        EXCEPT !.fn = "SignDivide", !.pc = "entry", !.G = gen]

\* the whole of SignDivide: G := Q of the pivoted QR, A := Q^H A Q,
\* part = ComputePartition( A ), part.value /= oneA
SignDivide ==
    /\ Running("SignDivide", "entry")
    /\ \E q \in Unitaries[Top.n], V \in {View(A, Top.lo, Top.lo, Top.n, Top.n)} :
        \E T \in {Transform(q, V, Top.n, Top.returnQ)} :
        \E raw \in PartitionOf(T, Top.n, Top.lo) :
        \E part \in {Normalized(raw, Top.oneA)} :
        LET f == Top
            g == [f EXCEPT !.V = V, !.part = part, !.tries = 1]
        IN  /\ A' = Store(A, f.lo, f.lo, f.n, f.n, T)
            /\ RSDReturn(g, part, FactorOf(q, f.n, f.returnQ))
    /\ UNCHANGED args

InitDivide ==
    /\ \E n \in 2..MaxN, dist \in BOOLEAN, randomized \in BOOLEAN,
          maxIts \in 1..MaxItsArg, relTol \in 0..MaxRelTol :
         \E M \in RSDInputs(n) :
            /\ A = M
            /\ IF randomized
               THEN /\ args = ArgsOf(M, n, 1, TRUE, FALSE, dist, maxIts, relTol)
                    /\ stack = <<RSDFrame(0, n, M, Generator(M, NoShift), TRUE,
                                          maxIts, relTol)>>
               ELSE /\ args = ArgsOf(M, n, 1, TRUE, FALSE, dist, 1, DefaultRelTol)
                    /\ stack = <<SignFrame(0, n, M, Generator(M, NoShift), TRUE)>>
    /\ out = NoResult
    /\ log = <<>>

NextDivide ==
    \/ RSDAttempt
    \/ SignDivide

SpecDivide == InitDivide /\ [][NextDivide]_vars

(***************************************************************************)
(* A direct call ComputePartition( A ) on an n x n Matrix or DistMatrix.   *)
(***************************************************************************)
LowerPositions(n) == {p \in Positions(n) : p[1] > p[2]}

\* the inputs of ComputePartition: 2 on and above the diagonal, at most three
\* nonzero entries below it
CPInputs(n) ==
    {[i \in 0..(n - 1) |-> [j \in 0..(n - 1) |->
         IF <<i, j>> \in DOMAIN f THEN f[<<i, j>>] ELSE IF i > j THEN 0 ELSE 2]] :
       f \in UNION {[S -> Entries \ {0}] :
                       S \in {T \in SUBSET LowerPositions(n) : Cardinality(T) <= 3}}}

CPFrame(n) == [fn |-> "CP", pc |-> "entry", lo |-> 0, n |-> n]

\* the part as ComputePartition returns it, before any division by a norm
Unscaled(part) == [index |-> part.index, value |-> part.value, den |-> 1, set |-> TRUE]

InitCP ==
    /\ \E n \in 0..MaxPartN, dist \in BOOLEAN :
         \E M \in CPInputs(n), grid \in IF dist THEN Grids ELSE {SequentialGrid} :
            /\ A = M
            /\ args = [ArgsOf(M, n, 1, FALSE, FALSE, dist, DefaultMaxIts, DefaultRelTol)
                         EXCEPT !.grid = grid]
            /\ stack = <<CPFrame(n)>>
    /\ out = NoResult
    /\ log = <<>>

\* ComputePartition( Matrix<F>& A )
CallComputePartition ==
    /\ Running("CP", "entry")
    /\ ~args.dist
    /\ \E part \in ComputePartition(A, Top.n) :
         out' = [NoResult EXCEPT !.done = TRUE, !.part = Unscaled(part)]
    /\ stack' = <<>>
    /\ UNCHANGED <<A, args, log>>

\* ComputePartition( DistMatrix<F>& A )
CallDistComputePartition ==
    /\ Running("CP", "entry")
    /\ args.dist
    /\ \E part \in DistComputePartition(A, args.grid, Top.n) :
         out' = [NoResult EXCEPT !.done = TRUE, !.part = Unscaled(part)]
    /\ stack' = <<>>
    /\ UNCHANGED <<A, args, log>>

NextCP ==
    \/ CallComputePartition
    \/ CallDistComputePartition

SpecCP == InitCP /\ [][NextCP]_vars

(***************************************************************************)
(* SpectralDivide( DistMatrix<F>& A ), process by process, up to its call  *)
(* of RandomizedSignDivide: every process draws, the draws of the root are *)
(* broadcast, and every process builds its G.                              *)
(***************************************************************************)
MaxProcs == 4

\* the grids of at most MaxProcs processes, unaligned
ProcGrids ==
    {g \in Grids : g.colAlign = 0 /\ g.rowAlign = 0 /\ g.r * g.c <= MaxProcs}

Procs(grid) == (0..(grid.r - 1)) \X (0..(grid.c - 1))

\* rank 0 of the VC communicator
Root == <<0, 0>>

\* faulty variant: no broadcast, every process keeps its own value
BroadcastNone(vals, root) == vals

\* mpi::Broadcast( x, root, g.VCComm() ): what each process holds afterwards
Broadcast(vals, root) == [p \in DOMAIN vals |-> vals[root]]

\* Uniform<Real>( 0, 2 Pi ): the angle of gamma, in quarter turns
Rotations == {0, 1}

\* one process in SpectralDivide; drawn and drawnGamma keep its own draws
NoProc ==
    [pc |-> "draw", shift |-> NoShift, gamma |-> 0, G |-> NoG,
     drawn |-> NoShift, drawnGamma |-> 0]

SDFrame(n, complex, grid) ==
    [fn |-> "SD", pc |-> "run", lo |-> 0, n |-> n, complex |-> complex,
     proc |-> [p \in Procs(grid) |-> NoProc]]

\* every process is waiting in the collective entered at pc
AllAt(pc) == \A p \in DOMAIN Top.proc : Top.proc[p].pc = pc

InitShift ==
    /\ \E n \in 2..MaxN, complex \in BOOLEAN :
         \E M \in Inputs(n), grid \in ProcGrids :
            /\ A = M
            /\ args = [ArgsOf(M, n, 1, FALSE, FALSE, TRUE, DefaultMaxIts, DefaultRelTol)
                         EXCEPT !.grid = grid]
            /\ stack = <<SDFrame(n, complex, grid)>>
    /\ out = NoResult
    /\ log = <<>>

\* shift = SampleBall( -gershCenter, 0.001 offDiagInf ) on process p, which
\* then enters the broadcast
DrawShift(p) ==
    /\ Running("SD", "run")
    /\ Top.proc[p].pc = "draw"
    /\ LET M          == View(A, 0, 0, Top.n, Top.n)
           zeroed     == SetDiagonal(M, [i \in 0..(Top.n - 1) |-> 0], Top.n)
           offDiagInf == InfinityNorm(zeroed, Top.n)
       IN  \E shift \in Shifts(M, Top.n, offDiagInf) :
             stack' = <<[Top EXCEPT !.proc[p] =
                           [@ EXCEPT !.pc = "bcastShift", !.shift = shift,
                                     !.drawn = shift]]>>
    /\ UNCHANGED <<A, args, out, log>>

\* mpi::Broadcast( shift, 0, A.Grid().VCComm() ) completes
BroadcastShift ==
    /\ Running("SD", "run")
    /\ AllAt("bcastShift")
    /\ LET shift == Broadcast([p \in DOMAIN Top.proc |-> Top.proc[p].shift], Root)
       IN  stack' = <<[Top EXCEPT !.proc =
                         [p \in DOMAIN Top.proc |->
                            [Top.proc[p] EXCEPT
                               !.pc = IF Top.complex THEN "angle" ELSE "build",
                               !.shift = shift[p]]]]>>
    /\ UNCHANGED <<A, args, out, log>>

\* complex only: angle = Uniform( 0, 2 Pi ); gamma = ( Cos(angle), Sin(angle) )
DrawRotation(p) ==
    /\ Running("SD", "run")
    /\ Top.proc[p].pc = "angle"
    /\ \E gamma \in Rotations :
         stack' = <<[Top EXCEPT !.proc[p] =
                       [@ EXCEPT !.pc = "bcastGamma", !.gamma = gamma,
                                 !.drawnGamma = gamma]]>>
    /\ UNCHANGED <<A, args, out, log>>

\* mpi::Broadcast( gamma, 0, A.Grid().VCComm() ) completes
BroadcastRotation ==
    /\ Running("SD", "run")
    /\ AllAt("bcastGamma")
    /\ LET gamma == Broadcast([p \in DOMAIN Top.proc |-> Top.proc[p].gamma], Root)
       IN  stack' = <<[Top EXCEPT !.proc =
                         [p \in DOMAIN Top.proc |->
                            [Top.proc[p] EXCEPT !.pc = "build",
                                                !.gamma = gamma[p]]]]>>
    /\ UNCHANGED <<A, args, out, log>>

\* G( A ); UpdateDiagonal( G, shift ); complex: Scale( gamma, G ) on process p,
\* which then calls RandomizedSignDivide
BuildG(p) ==
    /\ Running("SD", "run")
    /\ Top.proc[p].pc = "build"
    /\ stack' = <<[Top EXCEPT !.proc[p] =
                     [@ EXCEPT !.pc = "call",
                               !.G = Generator(View(A, 0, 0, Top.n, Top.n),
                                                Top.proc[p].shift)]]>>
    /\ UNCHANGED <<A, args, out, log>>

NextShift ==
    \/ \E p \in Procs(args.grid) : DrawShift(p)
    \/ BroadcastShift
    \/ \E p \in Procs(args.grid) : DrawRotation(p)
    \/ BroadcastRotation
    \/ \E p \in Procs(args.grid) : BuildG(p)

SpecShift == InitShift /\ [][NextShift]_vars

(***************************************************************************)
(* RandomizedSignDivide( DistMatrix<F>& A, G, returnQ, maxIts, relTol ),   *)
(* process by process: the operations on the distributed matrices are      *)
(* collective, the scan of the sums and the test of the loop are local.    *)
(***************************************************************************)
\* colSums and rowSums on each process after its local loop
LocalSums(M, grid, n) ==
    [p \in Procs(grid) |->
        [col |-> [j \in 0..(n - 2) |-> LocalColSum(M, grid, p[1], p[2], n, j)],
         row |-> [r \in 0..(n - 2) |-> LocalRowSum(M, grid, p[1], p[2], n, r + 1)]]]

\* faulty variant: the two mpi::AllReduce are missing
ReducedSumsSkipped(M, grid, n) == LocalSums(M, grid, n)

\* colSums and rowSums on each process after the two mpi::AllReduce
ReducedSums(M, grid, n) ==
    [p \in Procs(grid) |->
        [col |-> DistColSums(M, grid, n), row |-> DistRowSums(M, grid, n)]]

\* one process in RandomizedSignDivide
NoLoop == [pc |-> "loop", it |-> 0, part |-> NoPart, tries |-> 0]

RSDProcFrame(n, M, maxIts, relTol, grid) ==
    [fn |-> "RSDProc", pc |-> "run", lo |-> 0, n |-> n,
     maxIts |-> maxIts, relTol |-> relTol, oneA |-> OneNorm(M, n), A0 |-> M,
     proc |-> [p \in Procs(grid) |-> NoLoop]]

InitProcs ==
    /\ \E n \in 2..MaxN, maxIts \in 1..MaxItsArg, cutoff \in 1..MaxCutoff :
         \E M \in Inputs(n), grid \in ProcGrids :
            /\ A = M
            /\ args = [ArgsOf(M, n, cutoff, FALSE, FALSE, TRUE, maxIts, DefaultRelTol)
                         EXCEPT !.grid = grid]
            /\ stack = <<RSDProcFrame(n, M, maxIts, DefaultRelTol, grid)>>
    /\ out = NoResult
    /\ log = <<>>

\* the collective part of one iteration, entered by every process: G = S, the
\* RURV of the projector, V = A, A := Q^H A Q (after A = V of a failed
\* iteration); then each process sums its local entries and enters AllReduce
ProcAttempt ==
    /\ Running("RSDProc", "run")
    /\ \A p \in DOMAIN Top.proc :
          Top.proc[p].pc = "loop" /\ Top.proc[p].it < Top.maxIts
    /\ \E q \in Unitaries[Top.n] :
          A' = Transform(q, Top.A0, Top.n, FALSE)
    /\ stack' = <<[Top EXCEPT !.proc =
                     [p \in DOMAIN Top.proc |-> [Top.proc[p] EXCEPT !.pc = "reduce"]]]>>
    /\ UNCHANGED <<args, out, log>>

\* the two mpi::AllReduce complete
ProcAllReduce ==
    /\ Running("RSDProc", "run")
    /\ AllAt("reduce")
    /\ stack' = <<[Top EXCEPT !.proc =
                     [p \in DOMAIN Top.proc |-> [Top.proc[p] EXCEPT !.pc = "scan"]]]>>
    /\ UNCHANGED <<A, args, out, log>>

\* process p scans its sums, divides by oneA and tests the loop: it returns
\* part or starts the next iteration
ProcScan(p) ==
    /\ Running("RSDProc", "run")
    /\ Top.proc[p].pc = "scan"
    /\ \E sums \in {ReducedSums(A, args.grid, Top.n)[p]} :
       \E part \in {Normalized(Partition(sums.col, sums.row, Top.n), Top.oneA)} :
       LET me  == Top.proc[p]
           brk == Breaks(part, Top.relTol, me.it, Top.maxIts)
       IN  stack' = <<[Top EXCEPT !.proc[p] =
                         [pc |-> IF brk THEN "done" ELSE "loop",
                          it |-> IF brk THEN me.it ELSE me.it + 1,
                          part |-> part, tries |-> me.tries + 1]]>>
    /\ UNCHANGED <<A, args, out, log>>

\* every process has returned its part
ProcReturn ==
    /\ Running("RSDProc", "run")
    /\ AllAt("done")
    /\ ~out.done
    /\ out' = [NoResult EXCEPT !.done = TRUE, !.part = Top.proc[Root].part,
                               !.tries = Top.proc[Root].tries]
    /\ UNCHANGED <<A, stack, args, log>>

NextProcs ==
    \/ ProcAttempt
    \/ ProcAllReduce
    \/ \E p \in Procs(args.grid) : ProcScan(p)
    \/ ProcReturn

SpecProcs == InitProcs /\ [][NextProcs]_vars

(***************************************************************************)
(* The base case of SDC( DistMatrix<F>& A, .. ), process by process: A is  *)
(* redistributed to [CIRC,CIRC] (gathered on the root), the root runs      *)
(* schur::QR, and the result is redistributed back.                        *)
(***************************************************************************)
\* the grids of at most MaxProcs processes, with their alignments
BaseGrids == {g \in Grids : g.r * g.c <= MaxProcs}

\* faulty variant: the local entries are taken without the shifts
LocalUnshifted(M, grid, p, n) ==
    [iLoc \in 0..(LocalHeight(grid, p[1], n) - 1) |->
        [jLoc \in 0..(LocalWidth(grid, p[2], n) - 1) |->
            M[iLoc * grid.r][jLoc * grid.c]]]

\* the local matrix of process p when the n x n matrix M is distributed
Local(M, grid, p, n) ==
    [iLoc \in 0..(LocalHeight(grid, p[1], n) - 1) |->
        [jLoc \in 0..(LocalWidth(grid, p[2], n) - 1) |->
            M[GlobalRow(grid, p[1], iLoc)][GlobalCol(grid, p[2], jLoc)]]]

\* DistMatrix<F,CIRC,CIRC> A_CIRC_CIRC( A ): the n x n matrix on the root
Gathered(locals, grid, n) ==
    [i \in 0..(n - 1) |-> [j \in 0..(n - 1) |->
        LET p == CHOOSE x \in Procs(grid) :
                     /\ i % grid.r = ColShift(grid, x[1])
                     /\ j % grid.c = RowShift(grid, x[2])
        IN  locals[p][(i - ColShift(grid, p[1])) \div grid.r]
                     [(j - RowShift(grid, p[2])) \div grid.c]]]

\* one process in the base case
NoBase == [pc |-> "gather", local |-> NoMatrix, Qlocal |-> NoMatrix, ran |-> FALSE]

BaseFrame(n, M, grid) ==
    [fn |-> "Base", pc |-> "run", lo |-> 0, n |-> n,
     circ |-> NoMatrix, Qcirc |-> NoMatrix, z |-> NoPerm,
     proc |-> [p \in Procs(grid) |-> [NoBase EXCEPT !.local = Local(M, grid, p, n)]]]

InitBase ==
    /\ \E n \in 0..MaxN, vectors \in BOOLEAN :
         \E M \in Inputs(n), grid \in BaseGrids :
            /\ A = M
            /\ args = [ArgsOf(M, n, MaxN, vectors, vectors, TRUE,
                              DefaultMaxIts, DefaultRelTol) EXCEPT !.grid = grid]
            /\ stack = <<BaseFrame(n, M, grid)>>
    /\ out = NoResult
    /\ log = <<>>

\* A_CIRC_CIRC( A ) completes: the root holds the whole matrix
BaseGather ==
    /\ Running("Base", "run")
    /\ AllAt("gather")
    /\ stack' = <<[Top EXCEPT
                     !.circ = Gathered([p \in DOMAIN Top.proc |-> Top.proc[p].local],
                                       args.grid, Top.n),
                     !.proc = [p \in DOMAIN Top.proc |->
                                 [Top.proc[p] EXCEPT !.pc = "solve"]]]>>
    /\ UNCHANGED <<A, args, out, log>>

\* if( g.VCRank() == A_CIRC_CIRC.Root() ) schur::QR( .. ) on process p
BaseSolve(p) ==
    /\ Running("Base", "run")
    /\ Top.proc[p].pc = "solve"
    /\ IF p = Root
       THEN \E z \in Unitaries[Top.n] :
              stack' = <<[Top EXCEPT
                            !.circ = SchurQR(Top.circ, z, Top.n),
                            !.Qcirc = IF args.vectors THEN PermMatrix(z, Top.n)
                                      ELSE NoMatrix,
                            !.z = z,
                            !.proc[p] = [Top.proc[p] EXCEPT !.pc = "scatter",
                                                            !.ran = TRUE]]>>
       ELSE stack' = <<[Top EXCEPT !.proc[p] = [Top.proc[p] EXCEPT !.pc = "scatter"]]>>
    /\ UNCHANGED <<A, args, out, log>>

\* A = A_CIRC_CIRC; Q = Q_CIRC_CIRC; return
BaseScatter ==
    /\ Running("Base", "run")
    /\ AllAt("scatter")
    /\ stack' = <<[Top EXCEPT
                     !.proc = [p \in DOMAIN Top.proc |->
                                 [Top.proc[p] EXCEPT
                                    !.pc = "done",
                                    !.local = Local(Top.circ, args.grid, p, Top.n),
                                    !.Qlocal = IF args.vectors
                                               THEN Local(Top.Qcirc, args.grid, p, Top.n)
                                               ELSE NoMatrix]]]>>
    /\ A' = Top.circ
    /\ out' = Result(Top.Qcirc)
    /\ UNCHANGED <<args, log>>

NextBase ==
    \/ BaseGather
    \/ \E p \in Procs(args.grid) : BaseSolve(p)
    \/ BaseScatter

SpecBase == InitBase /\ [][NextBase]_vars

(***************************************************************************)
(* Properties.                                                             *)
(***************************************************************************)
Frames == {stack[i] : i \in 1..Len(stack)}

Events == {log[j] : j \in 1..Len(log)}

SplitEvents == {e \in Events : e.ev = "split"}

\* the frames of SDC calls that have a split behind them
PastSplit == {"split", "top", "afterTop", "bottom", "afterBottom"}

\* every live retry loop has made at most maxIts attempts
AttemptsBounded == \A f \in Frames : f.fn = "RSD" => f.tries <= f.maxIts

\* every live recursive call runs on a block strictly smaller than its parent's
ChildrenSmaller ==
    \A i \in 2..Len(stack) :
        stack[i].fn = "SDC" => stack[i - 1].fn = "SDC" /\ stack[i].n < stack[i - 1].n

\* C1: for every n >= 0 and cutoff >= 1, SDC( A, cutoff ) runs to its return,
\* every retry loop makes at most maxIts attempts on the way, and every
\* recursive call is made on a block strictly smaller than its parent's matrix.
C1_Terminates == <>(out.done /\ stack = <<>>) /\ [](AttemptsBounded /\ ChildrenSmaller)

\* a run that returned after splitting a MaxN x MaxN matrix down to 1 x 1 blocks,
\* with a split whose attempts were used up
C1_Witness ==
    /\ out.done
    /\ args.n = MaxN /\ args.cutoff = 1
    /\ \E e \in SplitEvents : ~e.met /\ e.value > 0

\* C2: ComputePartition, sequential and distributed, returns an index in
\* [1, n-1] on every n x n matrix with n >= 2.
C2_IndexInRange ==
    out.done /\ args.n >= 2 => 1 <= out.part.index /\ out.part.index <= args.n - 1

\* a distributed call that returned the last index, n - 1 > 1
C2_Witness ==
    /\ out.done /\ args.dist
    /\ args.n >= 3 /\ out.part.index = args.n - 1

\* C3: with cutoff >= 1 the splitter never runs on a matrix with n <= 1, every
\* index SDC partitions at is in [1, n-1], and both children are non-empty.
C3_SplitsProper ==
    /\ \A f \in Frames :
        /\ f.fn = "RSD" => f.n >= 2
        /\ f.fn = "SDC" /\ f.pc = "divide" => f.n >= 2
        /\ f.fn = "SDC" /\ f.pc \in PastSplit =>
              1 <= f.part.index /\ f.part.index <= f.n - 1
    /\ \A i \in 2..Len(stack) : stack[i].fn = "SDC" => stack[i].n >= 1
    /\ \A e \in SplitEvents : e.n >= 2 /\ 1 <= e.index /\ e.index <= e.n - 1

\* the second recursive call of a split of a 2 x 2 matrix is running
C3_Witness ==
    \E i \in 1..(Len(stack) - 1) :
        /\ stack[i].fn = "SDC" /\ stack[i].pc = "bottom" /\ stack[i].n = 2
        /\ stack[i + 1].fn = "SDC" /\ stack[i + 1].n = 1

\* what RandomizedSignDivide returned is the result of the attempt whose factor
\* it left in G: A is that attempt's transform of the A passed in, and part is
\* the partition of that A over the 1-norm of the A passed in
ReturnedAttempt ==
    /\ out.G.kind \in {"Q", "packed"}
    /\ out.G = FactorOf(out.G.q, args.n, args.vectors)
    /\ A = Transform(out.G.q, args.A0, args.n, args.vectors)
    /\ out.part.den = OneNorm(args.A0, args.n)
    /\ [value |-> out.part.value, index |-> out.part.index]
          \in PartitionOf(A, args.n, 0)

\* C4: with maxIts >= 1, when no attempt meets relTol, RandomizedSignDivide
\* makes exactly maxIts attempts and returns the last one's result, without error.
C4_Exhaustion ==
    out.done /\ args.maxIts >= 1 /\ ~LeqRelTol(out.part, args.relTol) =>
        /\ out.tries = args.maxIts
        /\ ~out.error
        /\ ReturnedAttempt

\* a call with maxIts = MaxItsArg returned a part above relTol
C4_Witness ==
    /\ out.done /\ args.maxIts = MaxItsArg
    /\ out.tries = MaxItsArg
    /\ ~LeqRelTol(out.part, args.relTol)

\* C5: the loop stops at the first attempt whose value is <= relTol: the loop
\* goes on only after attempts that did not meet it, and a returned part that
\* meets it is the result of the attempt that left A and G.
C5_StopsAtFirstSuccess ==
    /\ \A f \in Frames :
          f.fn = "RSD" /\ f.tries >= 1 => ~LeqRelTol(f.part, f.relTol)
    /\ out.done /\ out.tries >= 1 /\ LeqRelTol(out.part, args.relTol) => ReturnedAttempt

\* a distributed call returned after one attempt, with attempts to spare
C5_Witness ==
    /\ out.done /\ args.dist
    /\ out.tries = 1 /\ args.maxIts >= 2
    /\ LeqRelTol(out.part, args.relTol)

\* at the start of every attempt, A is the A passed in
AttemptsStartFromInput ==
    \A f \in Frames :
        f.fn = "RSD" /\ f.pc = "loop" => View(A, f.lo, f.lo, f.n, f.n) = f.A0

\* C6, as claimed: every retry restores A, so every attempt starts from the A
\* passed in, and on return A is that A transformed by exactly one attempt's Q.
C6_OneTransformAlways ==
    /\ AttemptsStartFromInput
    /\ out.done => ReturnedAttempt

\* C6, amended: the same, for calls with maxIts >= 1.
C6_OneTransform ==
    /\ AttemptsStartFromInput
    /\ out.done /\ args.maxIts >= 1 => ReturnedAttempt

\* a retry is about to start from a nonzero A, after an attempt that changed it
C6_Witness ==
    /\ Running("RSD", "loop")
    /\ Top.tries >= 1
    /\ Top.A0 # Zeros(Top.n, Top.n)
    /\ \E q \in Unitaries[Top.n] : Transform(q, Top.A0, Top.n, Top.returnQ) # Top.A0
    /\ View(A, Top.lo, Top.lo, Top.n, Top.n) = Top.A0

\* C7: a call with n <= cutoff is a base case: it never gets past its entry,
\* no split is made of it, and the top-level call with n <= cutoff returns
\* after the one call of the dense solver, also for n = 0.
C7_BaseCaseOnly ==
    /\ \A f \in Frames : f.n <= args.cutoff => f.fn = "SDC" /\ f.pc = "entry"
    /\ \A e \in SplitEvents : e.n > args.cutoff
    /\ out.done /\ args.n <= args.cutoff =>
          /\ log = <<[ev |-> "base", lo |-> 0, n |-> args.n]>>
          /\ \E z \in Unitaries[args.n] :
                /\ A = SchurQR(args.A0, z, args.n)
                /\ out.Q = IF args.vectors THEN PermMatrix(z, args.n) ELSE NoMatrix

\* a call with n = cutoff = MaxCutoff returned
C7_Witness ==
    /\ out.done
    /\ args.n = MaxCutoff /\ args.cutoff = MaxCutoff
    /\ Len(log) = 1

\* the Q the running SDC call hands back in the step that returns from it
ReturnedQ ==
    IF Len(stack) = 1 THEN out'.Q
    ELSE LET caller == stack'[Len(stack')]
         IN  IF caller.pc = "afterTop" THEN caller.ZTL ELSE caller.ZBR

\* C8: when SDC with vectors returns from a split at k, the Q it hands back is
\* [ Q_left Z_TL, Q_right Z_BR ] for the Q the split left, and ATR is
\* Z_TL^H ATR Z_BR when formATR is set (else the ATR the split left), in the
\* sequential and in the distributed version alike.
C8_Stitch ==
    [][Running("SDC", "afterBottom") =>
          LET f   == Top
              k   == f.part.index
              QL0 == Window(f.Qsplit, QLOf(f.n, k))
              QR0 == Window(f.Qsplit, QROf(f.n, k))
              atr == ATROf(f.lo, f.n, k)
          IN  /\ Window(ReturnedQ, QLOf(f.n, k)) = MatMul(QL0, f.ZTL, f.n, k, k)
              /\ Window(ReturnedQ, QROf(f.n, k)) =
                    MatMul(QR0, f.ZBR, f.n, f.n - k, f.n - k)
              /\ Window(A', atr) =
                    IF args.formATR
                    THEN MatMul(MatMul(Transpose(f.ZTL, k, k), f.ATRsplit,
                                       k, k, f.n - k),
                                f.ZBR, k, f.n - k, f.n - k)
                    ELSE f.ATRsplit]_vars

\* a distributed call with formATR is about to return from a split at k = 2
\* whose ATR is not zero and whose Z_TL is not symmetric
C8_Witness ==
    /\ Running("SDC", "afterBottom")
    /\ args.dist /\ args.formATR
    /\ Top.part.index = 2
    /\ Top.ATRsplit # Zeros(2, Top.n - 2)
    /\ Top.ZTL # Transpose(Top.ZTL, 2, 2)

\* C9: a split that did not reach relTol is not an error: SpectralDivide hands
\* the last attempt's part to SDC, which partitions at its index and recurses.
C9_NeverAnError ==
    /\ ~out.error
    /\ \A i \in 1..Len(stack) :
        LET f == stack[i]
        IN  /\ f.pc # "error"
            /\ f.fn = "SDC" /\ f.pc = "split" =>
                  /\ [value |-> f.part.value, index |-> f.part.index]
                        \in PartitionOf(View(A, f.lo, f.lo, f.n, f.n), f.n, f.lo)
                  /\ \E e \in SplitEvents :
                        e.lo = f.lo /\ e.n = f.n /\ e.index = f.part.index
            /\ f.fn = "SDC" /\ f.pc = "top" =>
                  stack[i + 1].lo = f.lo /\ stack[i + 1].n = f.part.index
            /\ f.fn = "SDC" /\ f.pc = "bottom" =>
                  /\ stack[i + 1].lo = f.lo + f.part.index
                  /\ stack[i + 1].n = f.n - f.part.index

\* SDC recurses on the top-left block of a split that did not reach relTol
C9_Witness ==
    \E i \in 1..(Len(stack) - 1) :
        /\ stack[i].fn = "SDC" /\ stack[i].pc = "top"
        /\ ~LeqRelTol(stack[i].part, DefaultRelTol)
        /\ stack[i].part.value > 0
        /\ stack[i + 1].n = stack[i].part.index

\* C10: after SDC returns, every bottom-left block a split left behind has a
\* normalized value <= relTol.
C10_SplitsMeetTolerance == out.done => \A e \in SplitEvents : e.met


\* C11: a call that violates a precondition (here cutoff < 1) is rejected before
\* any numerical work: no base case is solved, no split is attempted, no
\* recursive call is made, and the call ends in an error.
C11_FailsFast ==
    args.cutoff < 1 =>
        /\ log = <<>>
        /\ \A f \in Frames : f.fn = "SDC" /\ f.pc = "entry"
        /\ Len(stack) <= 1
        /\ out.done => out.error

\* C12: ComputePartition on a 0 x 0 matrix returns the sentinel, index = -1 and
\* value = -1, from the sequential and from the distributed routine.
C12_EmptySentinel ==
    out.done /\ args.n = 0 => out.part.index = -1 /\ out.part.value = -1

\* C13: ComputePartition on a 1 x 1 matrix returns the no-split result, the
\* sentinel index = -1 and value = -1, and not a split index.
C13_SingletonSentinel ==
    out.done /\ args.n = 1 => out.part.index = -1 /\ out.part.value = -1

\* the sums and the running score as section 4.1 of the specification defines
\* them: colSum[j] is the sum of |A[i,j]| over i > j, rowSum[i-1] the sum of
\* |A[i,j]| over j < i, norm[0] = colSum[0] and
\* norm[j] = norm[j-1] + colSum[j] - rowSum[j-1]
BelowDiagonal(j) ==
    SumRange([i \in (j + 1)..(args.n - 1) |-> Abs(A[i][j])], j + 1, args.n - 1)

LeftOfDiagonal(i) == SumRange([j \in 0..(i - 1) |-> Abs(A[i][j])], 0, i - 1)

RECURSIVE Score(_)
Score(j) ==
    IF j = 0 THEN BelowDiagonal(0)
    ELSE Score(j - 1) + BelowDiagonal(j) - LeftOfDiagonal(j)

\* the part returned is the minimum of the scores of the positions in S
MinimumOver(S) ==
    \E j \in S :
        /\ out.part.index = j + 1
        /\ out.part.value = Score(j)
        /\ \A i \in S : Score(j) <= Score(i)

\* C14 as stated: on n >= 2 ComputePartition returns j* + 1 and norm[j*], where
\* j* minimizes the running score norm[j] over j in [0, n-2).
C14_MinimumOverClaimedRange ==
    out.done /\ args.n >= 2 => MinimumOver(0..(args.n - 3))

\* C14, amended: on n >= 2 ComputePartition returns j* + 1 and norm[j*], where
\* j* minimizes the running score norm[j] over j in [0, n-1), the positions
\* 0 .. n-2 the scan visits.
C14_MinimumOverScan ==
    out.done /\ args.n >= 2 => MinimumOver(0..(args.n - 2))

\* a sequential call whose minimum is at the last position scanned, j = n - 2,
\* strictly below every other score
C14_Witness ==
    /\ out.done /\ ~args.dist
    /\ args.n = MaxPartN
    /\ out.part.index = args.n - 1
    /\ \A j \in 0..(args.n - 3) : Score(j) > out.part.value

\* the sum of |A[i,k]| over the block below and to the left of position j:
\* rows i > j, columns k <= j
BlockSum(j) ==
    SumRange([i \in (j + 1)..(args.n - 1) |->
                 SumRange([k \in 0..j |-> Abs(A[i][k])], 0, j)], j + 1, args.n - 1)

\* norms[j] as the routine that was called computes it from its sums
NormOfCall(j) ==
    IF args.dist
    THEN NormAt(DistColSums(A, args.grid, args.n), DistRowSums(A, args.grid, args.n), j)
    ELSE NormAt(ColSums(A, args.n), RowSums(A, args.n), j)

\* C15: for n >= 2 every norms[j] of the scan, j = 0 .. n-2, is the sum of
\* |A[i,k]| over i > j and k <= j; the value returned is the minimum of these
\* block sums and is never negative.
C15_BlockSums ==
    out.done /\ args.n >= 2 =>
        /\ \A j \in 0..(args.n - 2) : NormOfCall(j) = BlockSum(j)
        /\ \E j \in 0..(args.n - 2) : out.part.value = BlockSum(j)
        /\ \A j \in 0..(args.n - 2) : out.part.value <= BlockSum(j)
        /\ out.part.value >= 0

\* a distributed call whose smallest block sum is positive and in the middle
C15_Witness ==
    /\ out.done /\ args.dist
    /\ args.n = MaxPartN
    /\ out.part.index = 2
    /\ out.part.value > 0
    /\ BlockSum(0) > out.part.value

\* the infinity norm of M with its diagonal set to zero
OffDiagonalNorm(M, n) == InfinityNorm(SetDiagonal(M, [i \in 0..(n - 1) |-> 0], n), n)

\* C16: when the off-diagonal norm of the block is exactly zero the split step
\* returns early: the retry loop of RandomizedSignDivide is never entered on
\* such a block, and no value is divided by a zero one-norm.
C16_DegenerateReturnsEarly ==
    /\ \A f \in Frames :
          f.fn = "RSD" => OffDiagonalNorm(f.A0, f.n) # 0 /\ f.oneA # 0
    /\ \A e \in SplitEvents : e.den # 0

Identity(n) == [i \in 0..(n - 1) |-> [j \in 0..(n - 1) |-> IF i = j THEN 1 ELSE 0]]

\* the columns of the n x n matrix Q are orthonormal: Q^T Q = I
Orthonormal(Q, n) == MatMul(Transpose(Q, n, n), Q, n, n, n) = Identity(n)

Cells(v) == (v.r0..(v.r0 + v.h - 1)) \X (v.c0..(v.c0 + v.w - 1))

\* the positions in the stack of the SDC calls that are inside a recursive call
InChild(pc) ==
    {i \in 1..(Len(stack) - 1) : stack[i].fn = "SDC" /\ stack[i].pc = pc}

\* C18: the views ATL and ABR of a split share no entry of the backing
\* storage, and no step taken inside SDC( ATL, .. ) changes an entry of ABR, nor
\* any step inside SDC( ABR, .. ) an entry of ATL.
C18_SiblingsIsolated ==
    [][\A i \in InChild("top") \cup InChild("bottom") :
         LET f   == stack[i]
             ATL == ATLOf(f.lo, f.n, f.part.index)
             ABR == ABROf(f.lo, f.n, f.part.index)
         IN  /\ Cells(ATL) \cap Cells(ABR) = {}
             /\ f.pc = "top" => Window(A', ABR) = Window(A, ABR)
             /\ f.pc = "bottom" => Window(A', ATL) = Window(A, ATL)]_vars

\* a distributed call on the largest matrix: SDC( ABR, .. ) is running, has
\* started a split of its own and has rewritten its block at least once
C18_Witness ==
    /\ args.dist /\ args.n = MaxN
    /\ A # args.A0
    /\ \E i \in InChild("bottom") :
          /\ stack[i].n = MaxN
          /\ Top.fn = "RSD" /\ Top.tries >= 1
          /\ Top.lo = ABROf(stack[i].lo, stack[i].n, stack[i].part.index).r0

\* the processes of a running distributed SpectralDivide that have built G
Built == {p \in DOMAIN Top.proc : Top.proc[p].pc = "call"}

Settled == {p \in DOMAIN Top.proc : Top.proc[p].pc \in {"loop", "done"}}

\* what SDC does on a process with the part it got: the two sub-blocks and
\* whether each is a base case
Branches(part) ==
    LET ATL == ATLOf(0, args.n, part.index)
        ABR == ABROf(0, args.n, part.index)
    IN  <<ATL, ABR, IsBase(ATL.h, args.cutoff), IsBase(ABR.h, args.cutoff)>>

\* C20: the processes of a distributed call stay in step: after the same
\* number of attempts any two processes hold the same split index and value
\* and have taken the same decision, to retry or to return; all return after
\* the same number of attempts, and SDC partitions at the same index on every
\* process, with the same sub-blocks and the same base-case test on each.
C20_SameCollectives ==
    Running("RSDProc", "run") =>
        /\ \A p, r \in Settled :
              Top.proc[p].tries = Top.proc[r].tries => Top.proc[p] = Top.proc[r]
        /\ out.done =>
              \A p \in DOMAIN Top.proc :
                  /\ Top.proc[p].part = out.part
                  /\ Top.proc[p].tries = out.tries
                  /\ Branches(Top.proc[p].part) = Branches(out.part)

\* a call on the largest grid that returned after more than one attempt, on a
\* matrix where the sums of some process differ from the all-reduced sums
C20_Witness ==
    /\ Running("RSDProc", "run") /\ out.done
    /\ Cardinality(DOMAIN Top.proc) = MaxProcs
    /\ out.tries >= 2
    /\ out.part.value > 0
    /\ \E p \in DOMAIN Top.proc :
          LocalSums(A, args.grid, args.n)[p] # ReducedSums(A, args.grid, args.n)[p]

\* the process that owns entry (i, j) of a distributed matrix
OwnerOf(grid, i, j) == <<(i + grid.colAlign) % grid.r, (j + grid.rowAlign) % grid.c>>

\* C21: in the distributed base case only the root runs the dense solver, on
\* the whole gathered sub-matrix, and after the call the entry (i, j) of A, and
\* of Q in the vectors variant, held by its owner is the entry (i, j) of the
\* root's solver output.
C21_GatherSolveScatter ==
    Running("Base", "run") =>
        /\ \A p \in DOMAIN Top.proc : Top.proc[p].ran => p = Root
        /\ \A p \in DOMAIN Top.proc :
              Top.proc[p].pc = "scatter" /\ p = Root =>
                  Top.circ = SchurQR(args.A0, Top.z, Top.n)
        /\ AllAt("done") =>
              /\ Top.proc[Root].ran
              /\ \A i, j \in 0..(Top.n - 1) :
                    LET me == Top.proc[OwnerOf(args.grid, i, j)]
                    IN  /\ me.local[i \div args.grid.r][j \div args.grid.c] = Top.circ[i][j]
                        /\ args.vectors =>
                              me.Qlocal[i \div args.grid.r][j \div args.grid.c]
                                  = Top.Qcirc[i][j]

\* a vectors call on an aligned grid of MaxProcs processes has returned, and
\* the solver changed the matrix
C21_Witness ==
    /\ Running("Base", "run") /\ AllAt("done")
    /\ args.vectors /\ args.n = MaxN
    /\ Cardinality(DOMAIN Top.proc) = MaxProcs
    /\ args.grid.colAlign # 0 /\ args.grid.rowAlign # 0
    /\ A # args.A0

\* C22: with returnQ = true, when SignDivide or RandomizedSignDivide (maxIts
\* >= 1) returns, G holds a unitary matrix Q, and it is the Q of the attempt
\* whose transform is left in A: A = Q^H A_in Q, also after failed attempts
\* and after exhaustion.
C22_ReturnedQMatchesA ==
    out.done /\ args.vectors /\ args.maxIts >= 1 =>
        /\ out.G.kind = "Q"
        /\ Orthonormal(out.G.M, args.n)
        /\ A = MatMul(MatMul(Transpose(out.G.M, args.n, args.n), args.A0,
                             args.n, args.n, args.n),
                      out.G.M, args.n, args.n, args.n)

\* RandomizedSignDivide returned on exhaustion, after failed attempts, with a
\* Q that is not the identity and an A it changed
C22_Witness ==
    /\ out.done /\ args.vectors
    /\ args.maxIts = MaxItsArg /\ out.tries = args.maxIts
    /\ ~LeqRelTol(out.part, args.relTol)
    /\ out.G.M # Identity(args.n)
    /\ A # args.A0

\* Q^H A_in Q for the Q that SDC returned
Similar ==
    MatMul(MatMul(Transpose(out.Q, args.n, args.n), args.A0, args.n, args.n, args.n),
           out.Q, args.n, args.n, args.n)

\* the entries of the bottom-left and of the top-right blocks of all splits
ABLCells == UNION {Cells(ABLOf(e.lo, e.n, e.index)) : e \in SplitEvents}

ATRCells == UNION {Cells(ATROf(e.lo, e.n, e.index)) : e \in SplitEvents}

C24_DiagonalRestored ==
    [][Running("SDC", "entry") /\ ~IsBase(Top.n, args.cutoff) =>
          LET Ain == View(A, Top.lo, Top.lo, Top.n, Top.n)
              g   == stack'[Len(stack')]
          IN  /\ A' = A
              /\ g.fn = "RSD" /\ g.tries = 0
              /\ g.A0 = Ain
              /\ View(A', g.lo, g.lo, g.n, g.n) = Ain
              /\ g.gen.kind = "generator" /\ g.gen.M = Ain]_vars

\* RandomizedSignDivide has just been called with vectors, from a recursive
\* call, on a block whose diagonal is not zero
C24_Witness ==
    /\ Running("RSD", "loop") /\ Top.tries = 0
    /\ args.vectors
    /\ Len(stack) >= 3
    /\ Trace(Top.A0, Top.n) # 0
    /\ View(A, Top.lo, Top.lo, Top.n, Top.n) = Top.A0

\* C25: for n >= 2 and every grid shape and alignment the distributed
\* ComputePartition returns the index and the value that the sequential
\* ComputePartition returns on the same matrix, although it fills
\* rowSums[n-2], which the sequential routine leaves at zero.
C25_DistributedIsSequential ==
    out.done /\ args.dist /\ args.n >= 2 =>
        LET seq == Partition(ColSums(A, args.n), RowSums(A, args.n), args.n)
        IN  /\ out.part.index = seq.index
            /\ out.part.value = seq.value
            /\ DistColSums(A, args.grid, args.n) = ColSums(A, args.n)
            /\ \A r \in 0..(args.n - 3) :
                  DistRowSums(A, args.grid, args.n)[r] = RowSums(A, args.n)[r]

\* a call on the largest matrix and an aligned full grid, where the last row
\* sum differs between the two routines
C25_Witness ==
    /\ out.done /\ args.dist
    /\ args.n = MaxPartN
    /\ args.grid.r = MaxGrid /\ args.grid.c = MaxGrid
    /\ args.grid.colAlign # 0 /\ args.grid.rowAlign # 0
    /\ DistRowSums(A, args.grid, args.n)[args.n - 2] # RowSums(A, args.n)[args.n - 2]
    /\ out.part.value > 0 /\ out.part.index > 1

\* the base cases and the splits of the call so far, in the order they happened
BaseCalls == SelectSeq(log, LAMBDA e : e.ev = "base")

SplitCalls == SelectSeq(log, LAMBDA e : e.ev = "split")

\* the index just past the blocks the base case has solved so far
SolvedUpTo ==
    IF BaseCalls = <<>> THEN 0
    ELSE BaseCalls[Len(BaseCalls)].lo + BaseCalls[Len(BaseCalls)].n

\* C26: for n >= 1 and cutoff >= 1 the blocks on which SDC reaches the base
\* case are diagonal blocks [lo, lo + size) of 1 to cutoff rows each; they come
\* left to right, each starting where the one before ended, and when SDC has
\* returned they cover [0, n) with no gap and no overlap.  There is then one
\* split less than there are base cases, and with cutoff = 1 there are n base
\* cases and n - 1 splits.
C26_BaseBlocksTile ==
    args.n >= 1 =>
        /\ \A j \in 1..Len(BaseCalls) :
              /\ BaseCalls[j].lo =
                    (IF j = 1 THEN 0 ELSE BaseCalls[j - 1].lo + BaseCalls[j - 1].n)
              /\ 1 <= BaseCalls[j].n /\ BaseCalls[j].n <= args.cutoff
        /\ \A f \in Frames : 0 <= f.lo /\ f.lo + f.n <= args.n
        /\ out.done =>
              /\ SolvedUpTo = args.n
              /\ Len(SplitCalls) = Len(BaseCalls) - 1
              /\ args.cutoff = 1 =>
                    Len(BaseCalls) = args.n /\ Len(SplitCalls) = args.n - 1

\* the call on the largest matrix with cutoff = 1 has returned
C26_Witness ==
    /\ out.done
    /\ args.n = MaxN /\ args.cutoff = 1
    /\ args.vectors /\ args.dist
    /\ Len(BaseCalls) = MaxN /\ Len(SplitCalls) = MaxN - 1

\* the live SDC calls whose split has been made
SplitCallsLive ==
    {i \in 1..Len(stack) : stack[i].fn = "SDC" /\ stack[i].pc \in PastSplit}

\* C27: once a call of SDC has split its matrix, no step until that call
\* returns writes its bottom-left block ABL, and the only step that writes its
\* top-right block ATR is the call's own last one, in the vectors variant with
\* formATR = true.  In SDC( A, cutoff ) and in SDC( A, Q, formATR = false,
\* cutoff ) ATR holds what the split left in it for as long as the call lives.
C27_OffDiagonalBlocksKept ==
    [][\A i \in SplitCallsLive :
          LET f   == stack[i]
              abl == ABLOf(f.lo, f.n, f.part.index)
              atr == ATROf(f.lo, f.n, f.part.index)
          IN  /\ Window(A', abl) = Window(A, abl)
              /\ Window(A', atr) # Window(A, atr) =>
                    /\ args.vectors /\ args.formATR
                    /\ i = Len(stack) /\ f.pc = "afterBottom"
              /\ f.pc # "split" /\ ~(args.vectors /\ args.formATR) =>
                    /\ Window(A, atr) = f.ATRsplit
                    /\ Window(A', atr) = f.ATRsplit]_vars

\* a call on the largest matrix, vectors with formATR = false, whose two
\* children have returned, one of them with vectors other than the identity,
\* and left the nonzero blocks ABL and ATR behind
C27_Witness ==
    /\ Running("SDC", "afterBottom")
    /\ args.vectors /\ ~args.formATR
    /\ Top.n = MaxN
    /\ A # args.A0
    /\ LET k == Top.part.index
       IN  /\ Window(A, ABLOf(Top.lo, Top.n, k)) # Zeros(Top.n - k, k)
           /\ Window(A, ATROf(Top.lo, Top.n, k)) # Zeros(k, Top.n - k)
           /\ Top.ZTL # Identity(k) \/ Top.ZBR # Identity(Top.n - k)

====
